---- MODULE Spec2Model ----
(***************************************************************************)
(* Order lifecycle and delivery dispatch of the food-ordering marketplace. *)
(*                                                                         *)
(* Server side (src/server/routes/users.js, the orders router): the        *)
(* handlers POST / (create order), PUT /:id/status and                     *)
(* PUT /:id/accept-delivery, each split at its awaits: a step is one       *)
(* statement executed by the store followed by the synchronous code that   *)
(* runs when that await resolves.                                          *)
(*                                                                         *)
(* Client side (the OrderContext of src/unnamed/part_005 and the checkout  *)
(* of src/src/pages/customer/MyOrders.tsx): the in-memory order list, the  *)
(* cart, and the delayed auto-advance callbacks.                           *)
(***************************************************************************)
EXTENDS Integers, Sequences, FiniteSets

\* ------------------------------------------------------------------------
\* Bounds of the model
\* ------------------------------------------------------------------------
MaxLines == 2       \* line items in one create-order request
MaxCart  == 3       \* lines in the customer's cart
MaxQty   == 2       \* largest quantity of one line
MaxPrice == 2       \* largest price of a menu item (minor units)
MaxNow   == 2       \* milliseconds the client clock advances

Quantities == {1, MaxQty}
Prices     == {1, MaxPrice}

\* ------------------------------------------------------------------------
\* Users, restaurants, catalog
\* ------------------------------------------------------------------------
Customers == {"c1", "c2"}
Owners    == {"o1", "o2"}
Agents    == {"a1", "a2"}
Admins    == {"admin"}
Users     == Customers \cup Owners \cup Agents \cup Admins

role(u) ==
    IF u \in Admins THEN "admin"
    ELSE IF u \in Owners THEN "owner"
    ELSE IF u \in Agents THEN "agent"
    ELSE "customer"

Restaurants == {"r1", "r2"}
owner_id(r) == IF r = "r1" THEN "o1" ELSE "o2"

Menu == {"m1", "m2"}
menu_restaurant(m) == IF m = "m1" THEN "r1" ELSE "r2"

NULL      == "NULL"          \* SQL NULL / JSON null
UNDEFINED == "undefined"     \* a field absent from the request body

Statuses == {"pending", "preparing", "ready", "in_transit", "delivered", "cancelled"}

\* ------------------------------------------------------------------------
\* State
\* ------------------------------------------------------------------------
VARIABLES
    users,          \* table users: the ids of the rows that exist
    menu_items,     \* table menu_items: id -> [price, is_available]
    orders,         \* table orders: committed rows
    order_items,    \* table order_items: committed rows
    nextOrderId,    \* AUTO_INCREMENT counter of orders.id
    events,         \* what io.emit has broadcast, in order
    cproc,          \* POST / requests, one per customer
    sproc,          \* PUT /:id/status requests
    aproc,          \* PUT /:id/accept-delivery requests, one per agent
    cart,           \* client: CartContext items
    c_orders,       \* client: OrderContext orders, newest first
    now,            \* client: Date.now()
    timers          \* client: number of pending setTimeout callbacks per order id

serverVars == <<users, menu_items, orders, order_items, nextOrderId, events, cproc, sproc, aproc>>
clientVars == <<cart, c_orders, now, timers>>
vars == <<users, menu_items, orders, order_items, nextOrderId, events, cproc, sproc, aproc,
          cart, c_orders, now, timers>>

StatusProcs == {"s1", "s2"}

\* ------------------------------------------------------------------------
\* Pure helpers
\* ------------------------------------------------------------------------

\* restaurants.owner_id REFERENCES users(id) ON DELETE CASCADE: a restaurant
\* row exists as long as its owner's row does
RestaurantExists(r) == owner_id(r) \in users

\* itemTotal = menuItems[0].price * item.quantity
\* (variant: the quantity is left out of the product)
ItemTotalNoQty(price, quantity) == price
ItemTotal(price, quantity) == price * quantity

\* SELECT price FROM menu_items WHERE id = ? AND is_available = true
\* (variant: the query without its is_available condition)
SelectAnyPrice(mi, id) == IF id \in DOMAIN mi THEN {mi[id].price} ELSE {1}
SelectAvailablePrice(mi, id) ==
    IF id \in DOMAIN mi /\ mi[id].is_available THEN {mi[id].price} ELSE {}

\* the row INSERT INTO orders (...) creates: status and agent_id take the
\* column defaults ('pending', NULL)
\* (variant: the row starts in the status the kitchen works from)
NewOrderRowPreparing(id, customer, restaurant, total) ==
    [id |-> id, customer_id |-> customer, restaurant_id |-> restaurant,
     agent_id |-> NULL, total |-> total, status |-> "preparing"]
NewOrderRow(id, customer, restaurant, total) ==
    [id |-> id, customer_id |-> customer, restaurant_id |-> restaurant,
     agent_id |-> NULL, total |-> total, status |-> "pending"]

\* the row INSERT INTO order_items (...) creates; pos stands for the
\* AUTO_INCREMENT id of the row: the order of insertion within the order
NewItemRow(orderId, pos, item) ==
    [order_id |-> orderId, pos |-> pos, menu_item_id |-> item.menu_item_id,
     quantity |-> item.quantity, price |-> item.price]

\* ------------------------------------------------------------------------
\* POST /  (create order)
\* ------------------------------------------------------------------------
Lines == [menu_item_id : Menu, quantity : Quantities]

RECURSIVE SeqsUpTo(_, _)
SeqsUpTo(S, n) ==
    IF n = 0 THEN {<<>>}
    ELSE LET shorter == SeqsUpTo(S, n - 1)
         IN  shorter \cup {Append(s, x) : s \in {t \in shorter : Len(t) = n - 1}, x \in S}

IdleCreate == [pc |-> "idle", res |-> 0, orderId |-> 0]

\* the handler has responded with `code`; its locals stay as they were
DoneCreate(p, code) == [p EXCEPT !.pc = "done", !.res = code]

\* the statement the handler awaits once the availability loop is at item i
AfterLoop(c, p) ==
    IF p.i > Len(p.items) THEN [p EXCEPT !.pc = "insertOrder"] ELSE p

\* getConnection, beginTransaction, destructure req.body, start the loop
CreateBegin(c, restaurant_id, items) ==
    /\ cproc[c].pc = "idle"
    /\ cproc' = [cproc EXCEPT ![c] =
            AfterLoop(c, [pc |-> "select", res |-> 0, orderId |-> 0,
                          restaurant_id |-> restaurant_id, items |-> items,
                          i |-> 1, total |-> 0, orderItems |-> <<>>,
                          txOrder |-> {}, txItems |-> {}])]
    /\ UNCHANGED <<users, menu_items, orders, order_items, nextOrderId, events, sproc, aproc, clientVars>>

\* one iteration of the availability loop: the SELECT and what follows it
CreateSelect(c) ==
    LET p    == cproc[c]
        item == p.items[p.i]
        menuItems == SelectAvailablePrice(menu_items, item.menu_item_id)
    IN  /\ p.pc = "select"
        /\ IF menuItems = {}
           THEN \* rollback, 400
                cproc' = [cproc EXCEPT ![c] = DoneCreate(p, 400)]
           ELSE LET price == CHOOSE x \in menuItems : TRUE
                IN  cproc' = [cproc EXCEPT ![c] =
                        AfterLoop(c, [p EXCEPT
                            !.total = p.total + ItemTotal(price, item.quantity),
                            !.orderItems = Append(p.orderItems,
                                [menu_item_id |-> item.menu_item_id,
                                 quantity |-> item.quantity, price |-> price]),
                            !.i = p.i + 1])]
        /\ UNCHANGED <<users, menu_items, orders, order_items, nextOrderId, events, sproc, aproc, clientVars>>

\* (variant: the new-order event is emitted as soon as the id is known)
CreateInsertOrderEmitsFirst(c) ==
    LET p == cproc[c]
    IN  /\ p.pc = "insertOrder"
        /\ nextOrderId' = nextOrderId + 1
        /\ events' = Append(events, [type |-> "new-order", orderId |-> nextOrderId,
                                     restaurantId |-> p.restaurant_id,
                                     customerId |-> c, total |-> p.total])
        /\ cproc' = [cproc EXCEPT ![c] = [p EXCEPT
                !.orderId = nextOrderId,
                !.txOrder = {NewOrderRow(nextOrderId, c, p.restaurant_id, p.total)},
                !.pc = IF p.orderItems = <<>> THEN "commit" ELSE "insertItem"]]
        /\ UNCHANGED <<users, menu_items, orders, order_items, sproc, aproc, clientVars>>

\* INSERT INTO orders, inside the transaction; orderId = insertId
CreateInsertOrder(c) ==
    LET p == cproc[c]
    IN  /\ p.pc = "insertOrder"
        /\ c \in users /\ RestaurantExists(p.restaurant_id)   \* foreign keys
        /\ nextOrderId' = nextOrderId + 1
        /\ cproc' = [cproc EXCEPT ![c] = [p EXCEPT
                !.orderId = nextOrderId,
                !.txOrder = {NewOrderRow(nextOrderId, c, p.restaurant_id, p.total)},
                !.pc = IF p.orderItems = <<>> THEN "commit" ELSE "insertItem"]]
        /\ UNCHANGED <<users, menu_items, orders, order_items, events, sproc, aproc, clientVars>>

\* (variant: the insert goes through the pool, outside the transaction)
CreateInsertItemAutocommit(c) ==
    LET p == cproc[c]
        n == Cardinality(p.txItems) + 1
        row == NewItemRow(p.orderId, n, p.orderItems[n])
    IN  /\ p.pc = "insertItem"
        /\ order_items' = order_items \cup {row}
        /\ cproc' = [cproc EXCEPT ![c] = [p EXCEPT
                !.txItems = p.txItems \cup {row},
                !.pc = IF n = Len(p.orderItems) THEN "commit" ELSE "insertItem"]]
        /\ UNCHANGED <<users, menu_items, orders, nextOrderId, events, sproc, aproc, clientVars>>

\* INSERT INTO order_items for the next element of orderItems
CreateInsertItem(c) ==
    LET p == cproc[c]
        n == Cardinality(p.txItems) + 1
    IN  /\ p.pc = "insertItem"
        /\ p.orderItems[n].menu_item_id \in DOMAIN menu_items   \* foreign key
        /\ cproc' = [cproc EXCEPT ![c] = [p EXCEPT
                !.txItems = p.txItems \cup {NewItemRow(p.orderId, n, p.orderItems[n])},
                !.pc = IF n = Len(p.orderItems) THEN "commit" ELSE "insertItem"]]
        /\ UNCHANGED <<users, menu_items, orders, order_items, nextOrderId, events, sproc, aproc, clientVars>>

\* connection.commit(): the rows of the transaction become visible together
CreateCommit(c) ==
    LET p == cproc[c]
    IN  /\ p.pc = "commit"
        /\ orders' = orders \cup p.txOrder
        /\ order_items' = order_items \cup p.txItems
        /\ cproc' = [cproc EXCEPT ![c] = [p EXCEPT !.pc = "emit"]]
        /\ UNCHANGED <<users, menu_items, nextOrderId, events, sproc, aproc, clientVars>>

\* io.emit('new-order', ...) and the 201 response
CreateEmit(c) ==
    LET p == cproc[c]
    IN  /\ p.pc = "emit"
        /\ events' = Append(events, [type |-> "new-order", orderId |-> p.orderId,
                                     restaurantId |-> p.restaurant_id,
                                     customerId |-> c, total |-> p.total])
        /\ cproc' = [cproc EXCEPT ![c] = DoneCreate(p, 201)]
        /\ UNCHANGED <<users, menu_items, orders, order_items, nextOrderId, sproc, aproc, clientVars>>

\* an awaited store call rejects: catch, connection.rollback(), 500
CreateError(c) ==
    /\ cproc[c].pc \in {"select", "insertOrder", "insertItem", "commit"}
    /\ cproc' = [cproc EXCEPT ![c] = DoneCreate(cproc[c], 500)]
    /\ UNCHANGED <<users, menu_items, orders, order_items, nextOrderId, events, sproc, aproc, clientVars>>

\* ------------------------------------------------------------------------
\* PUT /:id/status  (update order status)
\* ------------------------------------------------------------------------
\* SELECT o.*, r.owner_id FROM orders o JOIN restaurants r ... WHERE o.id = ?
SelectOrder(id) == {o \in orders : o.id = id}

\* canUpdate: admin, the owner of the order's restaurant, or an agent who is
\* the order's agent or asks for in_transit
CanUpdate(user, order, status) ==
    \/ role(user) = "admin"
    \/ role(user) = "owner" /\ owner_id(order.restaurant_id) = user
    \/ role(user) = "agent" /\ (order.agent_id = user \/ status = "in_transit")

\* UPDATE orders SET status = ? [, agent_id = ?] WHERE id = ?
SetStatus(o, status, agent_id) ==
    IF agent_id # UNDEFINED
    THEN [o EXCEPT !.status = status, !.agent_id = agent_id]
    ELSE [o EXCEPT !.status = status]

UpdateOrders(id, status, agent_id) ==
    {IF o.id = id THEN SetStatus(o, status, agent_id) ELSE o : o \in orders}

DoneReq(code) == [pc |-> "done", res |-> code]

\* res.status(403).json({ error: 'Not authorized to update this order' }),
\* kept with the request it answers
NotAuthorized(user, orderId, status) ==
    [pc |-> "done", res |-> 403, user |-> user, orderId |-> orderId,
     status |-> status]

\* what the handler does once the permission SELECT has returned: 404, 403,
\* or go on to the UPDATE
AfterPermissionCheck(user, orderId, status, agent_id) ==
    LET found == SelectOrder(orderId)
    IN  IF found = {} THEN DoneReq(404)
        ELSE LET order == CHOOSE o \in found : TRUE
             IN  IF ~CanUpdate(user, order, status)
                 THEN NotAuthorized(user, orderId, status)
                 ELSE [pc |-> "update", res |-> 0, user |-> user,
                       orderId |-> orderId, status |-> status,
                       agent_id |-> agent_id,
                       order_status |-> order.status,
                       restaurant_id |-> order.restaurant_id,
                       customer_id |-> order.customer_id]

\* (variant: the UPDATE is issued before the permission check)
StatusSelectUpdatesFirst(s, user, orderId, status, agent_id) ==
    /\ sproc[s].pc = "idle"
    /\ orders' = UpdateOrders(orderId, status, agent_id)
    /\ sproc' = [sproc EXCEPT ![s] = AfterPermissionCheck(user, orderId, status, agent_id)]
    /\ UNCHANGED <<users, menu_items, order_items, nextOrderId, events, cproc, aproc, clientVars>>

\* the permission SELECT and the checks that follow it
StatusSelect(s, user, orderId, status, agent_id) ==
    /\ sproc[s].pc = "idle"
    /\ sproc' = [sproc EXCEPT ![s] = AfterPermissionCheck(user, orderId, status, agent_id)]
    /\ UNCHANGED <<users, menu_items, orders, order_items, nextOrderId, events, cproc, aproc, clientVars>>

\* the UPDATE statement
StatusUpdate(s) ==
    LET p == sproc[s]
    IN  /\ p.pc = "update"
        /\ orders' = UpdateOrders(p.orderId, p.status, p.agent_id)
        /\ sproc' = [sproc EXCEPT ![s] = [p EXCEPT !.pc = "emit"]]
        /\ UNCHANGED <<users, menu_items, order_items, nextOrderId, events, cproc, aproc, clientVars>>

\* io.emit('order-status-update', ...) and the 200 response
StatusEmit(s) ==
    LET p == sproc[s]
    IN  /\ p.pc = "emit"
        /\ events' = Append(events, [type |-> "order-status-update",
                                     orderId |-> p.orderId, status |-> p.status,
                                     restaurantId |-> p.restaurant_id,
                                     customerId |-> p.customer_id])
        /\ sproc' = [sproc EXCEPT ![s] = DoneReq(200)]
        /\ UNCHANGED <<users, menu_items, orders, order_items, nextOrderId, cproc, aproc, clientVars>>

\* the SELECT or the UPDATE rejects: catch, 500
\* (variant: the event is emitted from the catch block as well)
StatusErrorEmits(s) ==
    /\ sproc[s].pc \in {"idle", "update"}
    /\ events' = Append(events, [type |-> "order-status-update", orderId |-> 0,
                                 status |-> "pending"])
    /\ sproc' = [sproc EXCEPT ![s] = DoneReq(500)]
    /\ UNCHANGED <<users, menu_items, orders, order_items, nextOrderId, cproc, aproc, clientVars>>
\* (variant: the request can also be answered 500 once its UPDATE has run)
StatusErrorAfterWrite(s) ==
    /\ sproc[s].pc \in {"idle", "update", "emit"}
    /\ sproc' = [sproc EXCEPT ![s] = DoneReq(500)]
    /\ UNCHANGED <<users, menu_items, orders, order_items, nextOrderId, events, cproc, aproc, clientVars>>
StatusError(s) ==
    /\ sproc[s].pc \in {"idle", "update"}
    /\ sproc' = [sproc EXCEPT ![s] = DoneReq(500)]
    /\ UNCHANGED <<users, menu_items, orders, order_items, nextOrderId, events, cproc, aproc, clientVars>>

\* ------------------------------------------------------------------------
\* PUT /:id/accept-delivery  (agent claims an order)
\* ------------------------------------------------------------------------
\* SELECT * FROM orders WHERE id = ? AND status = 'ready' AND agent_id IS NULL
SelectAvailable(id) ==
    {o \in orders : o.id = id /\ o.status = "ready" /\ o.agent_id = NULL}

\* UPDATE orders SET agent_id = ?, status = 'in_transit' WHERE id = ?
AssignAgent(o, agent) == [o EXCEPT !.agent_id = agent, !.status = "in_transit"]

DoneAccept(code, orderId) == [pc |-> "done", res |-> code, orderId |-> orderId]

\* the availability SELECT: 400 when no row matches, else go on
AcceptSelect(a, orderId) ==
    /\ aproc[a].pc = "idle"
    /\ IF SelectAvailable(orderId) = {}
       THEN aproc' = [aproc EXCEPT ![a] = DoneAccept(400, orderId)]
       ELSE aproc' = [aproc EXCEPT ![a] =
                [pc |-> "update", res |-> 0, orderId |-> orderId]]
    /\ UNCHANGED <<users, menu_items, orders, order_items, nextOrderId, events, cproc, sproc, clientVars>>

\* the UPDATE statement (its WHERE names the id only)
AcceptUpdate(a) ==
    LET p == aproc[a]
    IN  /\ p.pc = "update"
        /\ orders' = {IF o.id = p.orderId THEN AssignAgent(o, a) ELSE o : o \in orders}
        /\ aproc' = [aproc EXCEPT ![a] = [p EXCEPT !.pc = "emit"]]
        /\ UNCHANGED <<users, menu_items, order_items, nextOrderId, events, cproc, sproc, clientVars>>

\* io.emit('order-status-update', ...) and the 200 response
AcceptEmit(a) ==
    LET p == aproc[a]
    IN  /\ p.pc = "emit"
        /\ events' = Append(events, [type |-> "order-status-update",
                                     orderId |-> p.orderId, status |-> "in_transit",
                                     agentId |-> a])
        /\ aproc' = [aproc EXCEPT ![a] = DoneAccept(200, p.orderId)]
        /\ UNCHANGED <<users, menu_items, orders, order_items, nextOrderId, cproc, sproc, clientVars>>

\* the SELECT or the UPDATE rejects: catch, 500
AcceptError(a) ==
    /\ aproc[a].pc \in {"idle", "update"}
    /\ aproc' = [aproc EXCEPT ![a] = DoneAccept(500, 0)]
    /\ UNCHANGED <<users, menu_items, orders, order_items, nextOrderId, events, cproc, sproc, clientVars>>

\* ------------------------------------------------------------------------
\* DELETE /api/users/:id  (admin deletes a user)
\* ------------------------------------------------------------------------
\* the rows a create-order transaction of customer c has inserted and not
\* yet committed; a DELETE that reaches their parent row waits for them
Uncommitted(c) == cproc[c].pc \in {"insertItem", "commit"}

\* the orders table after DELETE FROM users WHERE id = userId:
\* customer_id and restaurant_id cascade, agent_id is set to NULL
OrdersAfterDelete(userId) ==
    {IF o.agent_id = userId THEN [o EXCEPT !.agent_id = NULL] ELSE o :
        o \in {x \in orders : x.customer_id # userId
                                /\ owner_id(x.restaurant_id) # userId}}

\* menu_items.restaurant_id ... ON DELETE CASCADE
MenuAfterDelete(userId) ==
    [m \in {x \in DOMAIN menu_items : owner_id(menu_restaurant(x)) # userId}
        |-> menu_items[m]]

\* the handler answers 404 for an unknown id and 400 for an admin without
\* writing; otherwise it runs the DELETE, whose cascades are part of the
\* same statement
DeleteUser(userId) ==
    /\ userId \in users
    /\ role(userId) # "admin"
    /\ \A c \in Customers :
            Uncommitted(c) => (c # userId /\ owner_id(cproc[c].restaurant_id) # userId)
    /\ users' = users \ {userId}
    /\ menu_items' = MenuAfterDelete(userId)
    /\ orders' = OrdersAfterDelete(userId)
    /\ order_items' = {it \in order_items :
            /\ \E o \in OrdersAfterDelete(userId) : o.id = it.order_id
            /\ it.menu_item_id \in DOMAIN MenuAfterDelete(userId)}
    /\ UNCHANGED <<nextOrderId, events, cproc, sproc, aproc, clientVars>>

\* ------------------------------------------------------------------------
\* GET /agent  (the orders of a delivery agent)
\* ------------------------------------------------------------------------
\* SELECT o.* ... FROM orders o ... WHERE o.agent_id = ?
SelectByAgent(agent) == {o \in orders : o.agent_id = agent}

\* ------------------------------------------------------------------------
\* PUT /api/menu/:id  (owner edits price and availability)
\* ------------------------------------------------------------------------
UpdateMenuItem(m, price, is_available) ==
    /\ menu_items' = [menu_items EXCEPT ![m] =
            [price |-> price, is_available |-> is_available]]
    /\ menu_items' # menu_items
    /\ UNCHANGED <<users, orders, order_items, nextOrderId, events, cproc, sproc, aproc, clientVars>>

\* ------------------------------------------------------------------------
\* Client: cart, checkout (MyOrders.handlePlaceOrder) and OrderContext
\* ------------------------------------------------------------------------
\* a cart line as RestaurantDetail.handleAddToCart builds it: the menu item,
\* its restaurant and the price it had when added, with a quantity
CartLines ==
    {[id |-> "m1", restaurantId |-> "r1", price |-> 1, quantity |-> q] : q \in Quantities}
    \cup
    {[id |-> "m2", restaurantId |-> "r2", price |-> MaxPrice, quantity |-> q] : q \in Quantities}

\* one step of items.reduce(...): push the item on its restaurant's group,
\* creating the group on first sight (Object.values lists the groups in the
\* order their keys were created)
GroupIndex(acc, restaurantId) ==
    {k \in 1..Len(acc) : acc[k].restaurantId = restaurantId}

\* (variant: every item opens a group of its own)
GroupStepAlwaysNew(acc, item) ==
    Append(acc, [restaurantId |-> item.restaurantId, items |-> <<item>>])
GroupStep(acc, item) ==
    IF GroupIndex(acc, item.restaurantId) = {}
    THEN Append(acc, [restaurantId |-> item.restaurantId, items |-> <<item>>])
    ELSE LET k == CHOOSE x \in GroupIndex(acc, item.restaurantId) : TRUE
         IN  [acc EXCEPT ![k].items = Append(@, item)]

RECURSIVE ReduceGroups(_, _)
ReduceGroups(acc, items) ==
    IF items = <<>> THEN acc
    ELSE ReduceGroups(GroupStep(acc, Head(items)), Tail(items))

ItemsByRestaurant(items) == ReduceGroups(<<>>, items)

\* restaurantOrder.items.reduce((sum, item) => sum + item.price * item.quantity, 0)
RECURSIVE OrderTotal(_)
OrderTotal(items) ==
    IF items = <<>> THEN 0
    ELSE Head(items).price * Head(items).quantity + OrderTotal(Tail(items))

\* OrderContext.createOrder: the order gets id Date.now().toString() and
\* createdAt new Date(), read in the same millisecond
NewClientOrder(id, customer, group) ==
    [id |-> id, customerId |-> customer, restaurantId |-> group.restaurantId,
     items |-> group.items, total |-> OrderTotal(group.items),
     status |-> "pending", agentId |-> UNDEFINED, createdAt |-> id]

\* setOrders(prev => [newOrder, ...prev]) once per group, in group order
RECURSIVE PrependAll(_, _)
PrependAll(prev, news) ==
    IF news = <<>> THEN prev
    ELSE PrependAll(<<Head(news)>> \o prev, Tail(news))

\* the values Date.now() returns to the successive createOrder calls
ClockReadings(n) ==
    {t \in [1..n -> now..MaxNow] : \A k \in 1..(n - 1) : t[k] <= t[k + 1]}

\* handlePlaceOrder of the signed-in customer: group, create, clear the cart
PlaceOrder(customer) ==
    LET groups == ItemsByRestaurant(cart)
        n      == Len(groups)
    IN  /\ cart # <<>>
        /\ \E t \in ClockReadings(n) :
            /\ c_orders' = PrependAll(c_orders,
                    [k \in 1..n |-> NewClientOrder(t[k], customer, groups[k])])
            /\ timers' = [id \in 0..MaxNow |->
                    timers[id] + Cardinality({k \in 1..n : t[k] = id})]
            /\ now' = t[n]
        /\ cart' = <<>>
        /\ UNCHANGED serverVars

\* OrderContext.updateOrderStatus
ClientSetStatus(o, status, agentId) ==
    IF agentId # UNDEFINED
    THEN [o EXCEPT !.status = status, !.agentId = agentId]
    ELSE [o EXCEPT !.status = status]

updateOrderStatus(list, orderId, status, agentId) ==
    [k \in 1..Len(list) |->
        IF list[k].id = orderId THEN ClientSetStatus(list[k], status, agentId)
        ELSE list[k]]

\* the callback createOrder scheduled with setTimeout fires
TimerFire(id) ==
    /\ timers[id] > 0
    /\ timers' = [timers EXCEPT ![id] = @ - 1]
    /\ c_orders' = updateOrderStatus(c_orders, id, "preparing", UNDEFINED)
    /\ UNCHANGED <<cart, now, serverVars>>

\* a millisecond passes
Tick ==
    /\ now < MaxNow
    /\ now' = now + 1
    /\ UNCHANGED <<cart, c_orders, timers, serverVars>>

\* orders.filter(order => order.status === 'ready' && !order.agentId)
getAvailableDeliveries(list) ==
    LET Available(o) == o.status = "ready" /\ o.agentId = UNDEFINED
    IN  SelectSeq(list, Available)

\* orders.filter(order => order.agentId === agentId)
getOrdersByAgent(list, agentId) ==
    LET OfAgent(o) == o.agentId = agentId
    IN  SelectSeq(list, OfAgent)

\* DeliveryJobs: the Accept button of an order listed as available
handleAcceptDelivery(user, orderId) ==
    /\ \E k \in 1..Len(getAvailableDeliveries(c_orders)) :
            getAvailableDeliveries(c_orders)[k].id = orderId
    /\ c_orders' = updateOrderStatus(c_orders, orderId, "in_transit", user)
    /\ UNCHANGED <<cart, now, timers, serverVars>>

\* DeliveryJobs: the Complete button, shown on the agent's in_transit orders
handleCompleteDelivery(user, orderId) ==
    /\ \E k \in 1..Len(getOrdersByAgent(c_orders, user)) :
            /\ getOrdersByAgent(c_orders, user)[k].id = orderId
            /\ getOrdersByAgent(c_orders, user)[k].status = "in_transit"
    /\ c_orders' = updateOrderStatus(c_orders, orderId, "delivered", UNDEFINED)
    /\ UNCHANGED <<cart, now, timers, serverVars>>

\* the edges of the state table the restaurant owner drives
OwnerEdges ==
    {<<"pending", "preparing">>, <<"pending", "cancelled">>,
     <<"preparing", "ready">>, <<"preparing", "cancelled">>}

\* pages/restaurant/Orders: the owner moves an order along one of these edges
RestaurantOrdersSetStatus(orderId, status) ==
    /\ \E k \in 1..Len(c_orders) :
            c_orders[k].id = orderId /\ <<c_orders[k].status, status>> \in OwnerEdges
    /\ c_orders' = updateOrderStatus(c_orders, orderId, status, UNDEFINED)
    /\ UNCHANGED <<cart, now, timers, serverVars>>

\* ------------------------------------------------------------------------
\* Initial state
\* ------------------------------------------------------------------------
Init ==
    /\ users = Users
    /\ menu_items = [m \in Menu |-> [price |-> 1, is_available |-> TRUE]]
    /\ orders = {}
    /\ order_items = {}
    /\ nextOrderId = 1
    /\ events = <<>>
    /\ cproc = [c \in Customers |-> IdleCreate]
    /\ sproc = [s \in StatusProcs |-> [pc |-> "idle", res |-> 0]]
    /\ aproc = [a \in Agents |-> [pc |-> "idle", res |-> 0, orderId |-> 0]]
    /\ cart = <<>>
    /\ c_orders = <<>>
    /\ now = 0
    /\ timers = [id \in 0..MaxNow |-> 0]

\* ------------------------------------------------------------------------
\* Order creation under catalog edits
\* ------------------------------------------------------------------------
OneLine == <<[menu_item_id |-> "m1", quantity |-> 1]>>

NextCreate ==
    \/ \E items \in SeqsUpTo(Lines, MaxLines) : CreateBegin("c1", "r1", items)
    \/ \E m \in {"m2", "m9"} :
            CreateBegin("c2", "r2", <<[menu_item_id |-> m, quantity |-> 1]>>)
    \/ \E c \in Customers : CreateSelect(c)
    \/ \E c \in Customers : CreateInsertOrder(c)
    \/ \E c \in Customers : CreateInsertItem(c)
    \/ \E c \in Customers : CreateCommit(c)
    \/ \E c \in Customers : CreateEmit(c)
    \/ \E c \in Customers : CreateError(c)
    \/ \E price \in Prices : UpdateMenuItem("m1", price, TRUE)
    \/ \E avail \in BOOLEAN : UpdateMenuItem("m2", 1, avail)

SpecCreate == Init /\ [][NextCreate]_vars

\* ------------------------------------------------------------------------
\* One order, catalog edits and status updates after its creation
\* ------------------------------------------------------------------------
NextTotals ==
    \/ \E items \in SeqsUpTo(Lines, MaxLines) : CreateBegin("c1", "r1", items)
    \/ CreateSelect("c1")
    \/ CreateInsertOrder("c1")
    \/ CreateInsertItem("c1")
    \/ CreateCommit("c1")
    \/ CreateEmit("c1")
    \/ CreateError("c1")
    \/ \E price \in Prices : UpdateMenuItem("m1", price, TRUE)
    \/ \E avail \in BOOLEAN : UpdateMenuItem("m2", 1, avail)
    \/ \E u \in {"admin", "o1"}, st \in {"preparing", "cancelled"} :
            StatusSelect("s1", u, 1, st, UNDEFINED)
    \/ StatusUpdate("s1")
    \/ StatusEmit("s1")
    \/ StatusError("s1")

SpecTotals == Init /\ [][NextTotals]_vars

\* ------------------------------------------------------------------------
\* Status updates on an order, two requests in flight at once
\* ------------------------------------------------------------------------
OrderIds    == {1, 2}                       \* 2 matches no order here
AgentIdBody == Agents \cup {NULL, UNDEFINED}

NextStatus ==
    \/ CreateBegin("c1", "r1", OneLine)
    \/ CreateSelect("c1")
    \/ CreateInsertOrder("c1")
    \/ CreateInsertItem("c1")
    \/ CreateCommit("c1")
    \/ CreateEmit("c1")
    \/ CreateError("c1")
    \/ \E s \in StatusProcs, u \in Users, id \in OrderIds, st \in Statuses,
          ag \in AgentIdBody : StatusSelect(s, u, id, st, ag)
    \/ \E s \in StatusProcs : StatusUpdate(s)
    \/ \E s \in StatusProcs : StatusEmit(s)
    \/ \E s \in StatusProcs : StatusError(s)

SpecStatus == Init /\ [][NextStatus]_vars

\* ------------------------------------------------------------------------
\* Two agents claiming, with the status updates that make an order ready
\* ------------------------------------------------------------------------
NextClaim ==
    \/ CreateBegin("c1", "r1", OneLine)
    \/ CreateSelect("c1")
    \/ CreateInsertOrder("c1")
    \/ CreateInsertItem("c1")
    \/ CreateCommit("c1")
    \/ CreateEmit("c1")
    \/ CreateError("c1")
    \/ \E s \in StatusProcs, st \in Statuses : StatusSelect(s, "o1", 1, st, UNDEFINED)
    \/ \E s \in StatusProcs : StatusUpdate(s)
    \/ \E s \in StatusProcs : StatusEmit(s)
    \/ \E s \in StatusProcs : StatusError(s)
    \/ \E a \in Agents, id \in OrderIds : AcceptSelect(a, id)
    \/ \E a \in Agents : AcceptUpdate(a)
    \/ \E a \in Agents : AcceptEmit(a)
    \/ \E a \in Agents : AcceptError(a)

SpecClaim == Init /\ [][NextClaim]_vars

\* ------------------------------------------------------------------------
\* Client checkout
\* ------------------------------------------------------------------------
\* the items useCart() hands to the page are any cart of at most MaxCart lines
InitCheckout ==
    /\ cart \in SeqsUpTo(CartLines, MaxCart)
    /\ c_orders = <<>>
    /\ now = 0
    /\ timers = [id \in 0..MaxNow |-> 0]
    /\ users = Users
    /\ menu_items = [m \in Menu |-> [price |-> 1, is_available |-> TRUE]]
    /\ orders = {}
    /\ order_items = {}
    /\ nextOrderId = 1
    /\ events = <<>>
    /\ cproc = [c \in Customers |-> IdleCreate]
    /\ sproc = [s \in StatusProcs |-> [pc |-> "idle", res |-> 0]]
    /\ aproc = [a \in Agents |-> [pc |-> "idle", res |-> 0, orderId |-> 0]]

NextCheckout ==
    \/ PlaceOrder("c1")
    \/ \E id \in 0..MaxNow : TimerFire(id)
    \/ Tick

SpecCheckout == InitCheckout /\ [][NextCheckout]_vars

\* ------------------------------------------------------------------------
\* Client: the orders of one checkout through their life
\* ------------------------------------------------------------------------
TwoRestaurantCart ==
    <<[id |-> "m1", restaurantId |-> "r1", price |-> 1, quantity |-> 1],
      [id |-> "m2", restaurantId |-> "r2", price |-> MaxPrice, quantity |-> 1]>>

InitClient ==
    /\ cart = TwoRestaurantCart
    /\ c_orders = <<>>
    /\ now = 0
    /\ timers = [id \in 0..MaxNow |-> 0]
    /\ users = Users
    /\ menu_items = [m \in Menu |-> [price |-> 1, is_available |-> TRUE]]
    /\ orders = {}
    /\ order_items = {}
    /\ nextOrderId = 1
    /\ events = <<>>
    /\ cproc = [c \in Customers |-> IdleCreate]
    /\ sproc = [s \in StatusProcs |-> [pc |-> "idle", res |-> 0]]
    /\ aproc = [a \in Agents |-> [pc |-> "idle", res |-> 0, orderId |-> 0]]

NextClient ==
    \/ PlaceOrder("c1")
    \/ \E id \in 0..MaxNow : TimerFire(id)
    \/ Tick
    \/ \E id \in 0..MaxNow, st \in Statuses : RestaurantOrdersSetStatus(id, st)
    \/ \E a \in Agents, id \in 0..MaxNow : handleAcceptDelivery(a, id)
    \/ \E a \in Agents, id \in 0..MaxNow : handleCompleteDelivery(a, id)

SpecClient == InitClient /\ [][NextClient]_vars

\* ------------------------------------------------------------------------
\* Orders from their creation on, server and client
\* ------------------------------------------------------------------------
NextOrigin ==
    \/ CreateBegin("c1", "r1", OneLine)
    \/ CreateSelect("c1")
    \/ CreateInsertOrder("c1")
    \/ CreateInsertItem("c1")
    \/ CreateCommit("c1")
    \/ CreateEmit("c1")
    \/ CreateError("c1")
    \/ \E st \in {"preparing", "cancelled"}, ag \in {UNDEFINED, "a1"} :
            StatusSelect("s1", "o1", 1, st, ag)
    \/ StatusUpdate("s1")
    \/ StatusEmit("s1")
    \/ StatusError("s1")
    \/ PlaceOrder("c1")
    \/ \E id \in 0..MaxNow : TimerFire(id)
    \/ Tick

SpecOrigin == InitClient /\ [][NextOrigin]_vars

\* ------------------------------------------------------------------------
\* Orders while an admin deletes users
\* ------------------------------------------------------------------------
NextDelete ==
    \/ \E c \in Customers : CreateBegin(c, "r1", OneLine)
    \/ \E c \in Customers : CreateSelect(c)
    \/ \E c \in Customers : CreateInsertOrder(c)
    \/ \E c \in Customers : CreateInsertItem(c)
    \/ \E c \in Customers : CreateCommit(c)
    \/ \E c \in Customers : CreateEmit(c)
    \/ \E c \in Customers : CreateError(c)
    \/ \E st \in {"in_transit", "delivered"} : StatusSelect("s1", "admin", 1, st, "a1")
    \/ StatusUpdate("s1")
    \/ StatusEmit("s1")
    \/ StatusError("s1")
    \/ \E u \in Users : DeleteUser(u)

SpecDelete == Init /\ [][NextDelete]_vars

\* ------------------------------------------------------------------------
\* Order creation with any integer quantity in the request body
\* ------------------------------------------------------------------------
SignedLines == [menu_item_id : {"m1"}, quantity : {-1, 0, 1}]

NextQuantity ==
    \/ \E items \in SeqsUpTo(SignedLines, MaxLines) : CreateBegin("c1", "r1", items)
    \/ CreateSelect("c1")
    \/ CreateInsertOrder("c1")
    \/ CreateInsertItem("c1")
    \/ CreateCommit("c1")
    \/ CreateEmit("c1")
    \/ CreateError("c1")
    \/ \E price \in Prices : UpdateMenuItem("m1", price, TRUE)

SpecQuantity == Init /\ [][NextQuantity]_vars

\* ========================================================================
\* Properties
\* ========================================================================
Edges ==
    {<<"pending", "preparing">>, <<"pending", "cancelled">>,
     <<"preparing", "ready">>, <<"preparing", "cancelled">>,
     <<"ready", "in_transit">>,
     <<"in_transit", "delivered">>, <<"in_transit", "cancelled">>}

Terminal == {"delivered", "cancelled"}

\* C1: of two accept-delivery requests by different agents on the same order,
\* at most one is answered 200 (the other is refused).
C1_ExactlyOneClaimSucceeds ==
    \A a \in Agents, b \in Agents :
        (a # b /\ aproc[a].pc = "done" /\ aproc[b].pc = "done"
              /\ aproc[a].orderId = aproc[b].orderId)
        => ~(aproc[a].res = 200 /\ aproc[b].res = 200)

\* C2: the UPDATE of a status request is executed only when (status stored,
\* status requested) is an edge of the state table.
C2_OnlyTableEdges ==
    [][\A s \in StatusProcs :
        (sproc[s].pc = "update" /\ sproc'[s].pc = "emit")
        => \A o \in SelectOrder(sproc[s].orderId) :
                <<o.status, sproc[s].status>> \in Edges]_vars

\* C3: once an order is delivered or cancelled, no step changes its status.
C3_TerminalIsFinal ==
    [][\A o \in orders : \A o2 \in orders' :
        (o.status \in Terminal /\ o2.id = o.id) => o2.status = o.status]_vars

\* C4: no order is in_transit without an agent, and no pending, preparing or
\* ready order has an agent.
C4_AgentIffInTransit ==
    \A o \in orders :
        /\ o.status = "in_transit" => o.agent_id # NULL
        /\ o.status \in {"pending", "preparing", "ready"} => o.agent_id = NULL

\* C5: a status request that is refused (403, 404) is refused by the step of
\* its permission check, before its UPDATE, and that step leaves the orders
\* table as it was.
C5_RefusedLeavesOrder ==
    [][\A s \in StatusProcs :
        (sproc[s].pc # "done" /\ sproc'[s].pc = "done" /\ sproc'[s].res \in {403, 404})
        => (sproc[s].pc = "idle" /\ orders' = orders /\ order_items' = order_items)]_vars

C5_Witness ==
    \E s \in StatusProcs :
        /\ sproc[s].pc = "done" /\ sproc[s].res = 403
        /\ \E o \in orders : o.status # "pending"

\* rows the create-order request of customer c has left in the store
RowsOf(c) ==
    {o \in orders : o.customer_id = c}
    \cup {it \in order_items : \A o \in orders : o.id = it.order_id => o.customer_id = c}

LineUnavailable(m) == m \notin DOMAIN menu_items \/ ~menu_items[m].is_available

\* C6: a create-order request that looks up a line whose menu item is missing
\* or unavailable goes no further, at whatever position the line is, and a
\* request answered 400 has no order row and no order-item row.
C6_UnavailableRejectsAll ==
    /\ [](\A c \in Customers : cproc[c].res = 400 => RowsOf(c) = {})
    /\ [][\A c \in Customers :
            (cproc[c].pc = "select" /\ cproc'[c] # cproc[c]
                /\ LineUnavailable(cproc[c].items[cproc[c].i].menu_item_id))
            => (cproc'[c].pc = "done" /\ cproc'[c].res \in {400, 500}
                /\ orders' = orders /\ order_items' = order_items)]_vars

C6_Witness ==
    /\ cproc["c1"].pc = "done" /\ cproc["c1"].res = 400
    /\ cproc["c1"].i = 2 /\ Len(cproc["c1"].orderItems) = 1
    /\ RowsOf("c1") = {}
    /\ orders # {}

\* the lines of a request, as the rows they become
RequestRows(items) ==
    {[pos |-> k, menu_item_id |-> items[k].menu_item_id, quantity |-> items[k].quantity] :
        k \in 1..Len(items)}

ItemRows(id) ==
    {[pos |-> it.pos, menu_item_id |-> it.menu_item_id, quantity |-> it.quantity] :
        it \in {x \in order_items : x.order_id = id}}

NewOrderEvents == {k \in 1..Len(events) : events[k].type = "new-order"}

\* C8: every new-order event names a committed order of its customer, and no
\* event exists for a request that was refused or rolled back or has not
\* committed yet.
C8_EventAfterCommit ==
    /\ \A k \in NewOrderEvents :
            \E o \in orders : o.id = events[k].orderId /\ o.customer_id = events[k].customerId
    /\ \A c \in Customers :
            (cproc[c].pc # "done" \/ cproc[c].res \in {400, 500})
            => \A k \in NewOrderEvents : events[k].customerId # c

C8_Witness ==
    /\ NewOrderEvents # {}
    /\ \E c \in Customers :
            cproc[c].pc = "done" /\ cproc[c].res = 500 /\ cproc[c].orderId # 0

RECURSIVE SumRows(_)
SumRows(rows) ==
    IF rows = {} THEN 0
    ELSE LET r == CHOOSE x \in rows : TRUE
         IN  r.price * r.quantity + SumRows(rows \ {r})

\* the line the availability loop of customer c has just taken up, if any
Captured(c) ==
    IF cproc[c].pc = "select" /\ cproc'[c].pc # "done"
          /\ Len(cproc'[c].orderItems) = Len(cproc[c].orderItems) + 1
    THEN {cproc'[c].orderItems[Len(cproc'[c].orderItems)]}
    ELSE {}

RECURSIVE SumLines(_)
SumLines(lines) ==
    IF lines = <<>> THEN 0
    ELSE Head(lines).price * Head(lines).quantity + SumLines(Tail(lines))

RECURSIVE SumTotals(_)
SumTotals(list) ==
    IF list = <<>> THEN 0 ELSE Head(list).total + SumTotals(Tail(list))

LinesOf(lines, r) ==
    LET OfR(l) == l.restaurantId = r IN SelectSeq(lines, OfR)

\* C10: a checkout of a non-empty cart adds one order per distinct restaurant
\* of the cart, each holding exactly the cart lines of its restaurant with
\* total the sum of price x quantity of these lines; the totals add up to the
\* sum over the whole cart.
C10_CheckoutSplits ==
    [][(cart # <<>> /\ cart' = <<>>) =>
        LET added == SubSeq(c_orders', 1, Len(c_orders') - Len(c_orders))
            rs    == {cart[k].restaurantId : k \in 1..Len(cart)}
        IN  /\ c_orders' = added \o c_orders
            /\ Len(added) = Cardinality(rs)
            /\ \A r \in rs : \E k \in 1..Len(added) :
                    /\ added[k].restaurantId = r
                    /\ added[k].items = LinesOf(cart, r)
                    /\ added[k].total = SumLines(LinesOf(cart, r))
            /\ SumTotals(added) = SumLines(cart)]_vars

C10_Witness ==
    /\ cart = <<>>
    /\ Len(c_orders) = 2
    /\ \E k \in 1..2 : Len(c_orders[k].items) = 2
    /\ c_orders[1].restaurantId # c_orders[2].restaurantId

\* C11: two status requests on the same order that read it in the same status
\* and ask for two different edges out of that status never both get their
\* UPDATE through (both would then be answered 200).
C11_ExclusiveEdgesOneWins ==
    \A s \in StatusProcs, t \in StatusProcs :
        (s # t /\ sproc[s].pc = "emit" /\ sproc[t].pc = "emit"
               /\ sproc[s].orderId = sproc[t].orderId
               /\ sproc[s].order_status = sproc[t].order_status
               /\ <<sproc[s].order_status, sproc[s].status>> \in Edges
               /\ <<sproc[t].order_status, sproc[t].status>> \in Edges)
        => sproc[s].status = sproc[t].status

\* the actors the state table allows on each edge
Authorized(user, o, to) ==
    LET edge == <<o.status, to>>
        ownerOrAdmin == role(user) = "admin" \/ owner_id(o.restaurant_id) = user
    IN  \/ edge \in {<<"pending", "preparing">>, <<"preparing", "ready">>,
                     <<"preparing", "cancelled">>}
           /\ ownerOrAdmin
        \/ edge = <<"pending", "cancelled">>
           /\ (ownerOrAdmin \/ o.customer_id = user)
        \/ edge = <<"ready", "in_transit">>
           /\ role(user) \in {"agent", "admin"}
        \/ edge = <<"in_transit", "delivered">>
           /\ (role(user) = "admin" \/ (role(user) = "agent" /\ o.agent_id = user))
        \/ edge = <<"in_transit", "cancelled">>
           /\ role(user) = "admin"

\* C12: a status request whose UPDATE moves an order along an edge of the
\* state table was sent by an actor the table allows on that edge.
C12_CommittedByAuthorizedActor ==
    [][\A s \in StatusProcs :
        (sproc[s].pc = "update" /\ sproc'[s].pc = "emit")
        => \A o \in SelectOrder(sproc[s].orderId) :
                <<o.status, sproc[s].status>> \in Edges
                => Authorized(sproc[s].user, o, sproc[s].status)]_vars

\* C13: a request of the customer who placed an order to cancel it while it
\* is pending is not answered 403.
C13_CustomerCancelsPending ==
    [][\A s \in StatusProcs :
        (sproc[s].pc = "idle" /\ sproc'[s].pc = "done" /\ sproc'[s].res = 403)
        => ~\E o \in orders :
                /\ o.id = sproc'[s].orderId
                /\ o.status = "pending"
                /\ o.customer_id = sproc'[s].user
                /\ sproc'[s].status = "cancelled"]_vars

\* C14: the UPDATE of an accept-delivery request is applied only to an order
\* that is ready and has no agent, and then sets the agent and in_transit
\* together; a request answered 400 leaves the orders table as it was.
C14_ClaimOnlyClaimable ==
    [][\A a \in Agents :
        /\ (aproc[a].pc = "update" /\ aproc'[a].pc = "emit")
           => \A o \in orders : o.id = aproc[a].orderId
                => /\ o.status = "ready" /\ o.agent_id = NULL
                   /\ AssignAgent(o, a) \in orders'
        /\ (aproc[a].pc # "done" /\ aproc'[a].pc = "done" /\ aproc'[a].res = 400)
           => orders' = orders]_vars

\* C15: the client's list of available deliveries holds exactly the orders
\* that are ready and have no agent, the oldest-created first.
C15_ClaimableOldestFirst ==
    LET l == getAvailableDeliveries(c_orders)
    IN  /\ \A k \in 1..Len(c_orders) :
            (c_orders[k].status = "ready" /\ c_orders[k].agentId = UNDEFINED)
            <=> \E j \in 1..Len(l) : l[j] = c_orders[k]
        /\ \A i \in 1..Len(l), j \in 1..Len(l) :
            i < j => l[i].createdAt <= l[j].createdAt

\* C16: an order the agent query returns for an agent is returned for that
\* agent ever after, whatever status it moves to.
C16_AssignedStaysListed ==
    [][\A a \in Agents : \A o \in SelectByAgent(a) :
            \E o2 \in orders' : o2.id = o.id /\ o2.agent_id = a]_vars

\* C17: a create-order request whose item list is empty is never answered
\* 201 and leaves no order row and no order-item row.
C17_NoOrderFromEmptyList ==
    \A c \in Customers :
        (cproc[c].pc # "idle" /\ cproc[c].items = <<>>)
        => (cproc[c].res # 201 /\ RowsOf(c) = {})

StatusEvents == {k \in 1..Len(events) : events[k].type = "order-status-update"}

\* the step appends exactly one event, a status update of order id to status
EmitsOne(id, status) ==
    /\ Len(events') = Len(events) + 1
    /\ SubSeq(events', 1, Len(events)) = events
    /\ events'[Len(events')].type = "order-status-update"
    /\ events'[Len(events')].orderId = id
    /\ events'[Len(events')].status = status

C19_CreatedPendingNoAgent ==
    [][/\ \A o \in orders' :
            (\A old \in orders : old.id # o.id)
            => (o.status = "pending" /\ o.agent_id = NULL)
       /\ \A k \in 1..(Len(c_orders') - Len(c_orders)) :
            c_orders'[k].status = "pending" /\ c_orders'[k].agentId = UNDEFINED]_vars

C19_Witness ==
    /\ \E o \in orders : o.status = "cancelled" /\ o.agent_id = "a1"
    /\ Len(c_orders) = 2
    /\ \E k \in 1..2 : c_orders[k].status = "preparing"

C21_OrdersOnlyGrow ==
    [][\A o \in orders : \E o2 \in orders' : o2.id = o.id]_vars

\* C22: a request of the placing customer to cancel an order that is
\* preparing is refused, and refused as an invalid transition: it is not
\* admitted to the UPDATE and its answer is not the 403 given to actors who
\* are not authorized.
C22_CancelAfterPreparingInvalid ==
    [][\A s \in StatusProcs :
        (sproc[s].pc = "idle" /\ sproc'[s].pc # "idle" /\ sproc'[s].res \notin {404, 500})
        => \A o \in orders :
                (/\ o.id = sproc'[s].orderId
                 /\ o.status = "preparing"
                 /\ sproc'[s].user = o.customer_id
                 /\ sproc'[s].status = "cancelled")
                => (sproc'[s].pc = "done" /\ sproc'[s].res \notin {200, 403})]_vars

\* C23: when the UPDATE of a status request of an agent moves a ready order
\* that is not assigned to that agent to in_transit, the order's agent_id is
\* that agent afterwards.
C23_TransitAssignsRequester ==
    [][\A s \in StatusProcs :
        (sproc[s].pc = "update" /\ sproc'[s].pc = "emit"
            /\ role(sproc[s].user) = "agent" /\ sproc[s].status = "in_transit")
        => \A o \in orders :
                (o.id = sproc[s].orderId /\ o.status = "ready"
                    /\ o.agent_id # sproc[s].user)
                => \A o2 \in orders' :
                        o2.id = o.id => o2.agent_id = sproc[s].user]_vars

\* C24: every order row has a total of at least 0 and every order-item row
\* has a quantity of at least 1.
C24_TotalsAndQuantitiesPositive ==
    /\ \A o \in orders : o.total >= 0
    /\ \A it \in order_items : it.quantity >= 1

\* C25: no two orders of the client's list have the same id.
C25_ClientIdsUnique ==
    \A i \in 1..Len(c_orders), j \in 1..Len(c_orders) :
        i # j => c_orders[i].id # c_orders[j].id

\* C26: when a delayed callback of createOrder fires, an order that is not
\* pending keeps its status.
C26_TimerOnlyAdvancesPending ==
    [][(\E id \in 0..MaxNow : timers'[id] < timers[id])
        => /\ Len(c_orders') = Len(c_orders)
           /\ \A k \in 1..Len(c_orders) :
                c_orders[k].status # "pending"
                => c_orders'[k].status = c_orders[k].status]_vars

\* C27: the UPDATE of a status request sent by an actor who is not an admin
\* leaves the agent_id of an order that has an agent as it is.
C27_AgentKeptByNonAdmin ==
    [][\A s \in StatusProcs :
        (sproc[s].pc = "update" /\ sproc'[s].pc = "emit"
            /\ role(sproc[s].user) # "admin")
        => \A o \in orders : o.agent_id # NULL
                => \A o2 \in orders' : o2.id = o.id => o2.agent_id = o.agent_id]_vars

\* C28: every order-item row names a menu item of the restaurant of its
\* order.
C28_ItemsOfOwnRestaurant ==
    \A it \in order_items : \A o \in orders :
        o.id = it.order_id => menu_restaurant(it.menu_item_id) = o.restaurant_id

\* the last order-status-update event emitted for order id, if any
LastStatusEvent(id) ==
    LET ks == {k \in StatusEvents : events[k].orderId = id}
    IN  IF ks = {} THEN {}
        ELSE {events[CHOOSE k \in ks : \A j \in ks : j <= k]}

\* C29: when no status request is in flight, the last status event emitted
\* for an order carries the status stored for it.
C29_LastEventIsStoredStatus ==
    (\A s \in StatusProcs : sproc[s].pc \in {"idle", "done"})
    => \A o \in orders : \A e \in LastStatusEvent(o.id) : e.status = o.status

\* C30: a status update changes one order only: on the client at most one
\* order of the list differs after the call; on the server the UPDATE of a
\* status request leaves every order with another id, every total and every
\* order-item row as they were.
C30_UpdateChangesOneOrder ==
    [][/\ Len(c_orders') = Len(c_orders)
            => Cardinality({k \in 1..Len(c_orders) : c_orders'[k] # c_orders[k]}) <= 1
       /\ \A s \in StatusProcs :
            (sproc[s].pc = "update" /\ sproc'[s].pc = "emit")
            => /\ order_items' = order_items
               /\ \A o \in orders :
                    /\ o.id # sproc[s].orderId => o \in orders'
                    /\ \E o2 \in orders' : o2.id = o.id /\ o2.total = o.total]_vars

====
